---- MODULE Spec2Model ----
(***************************************************************************)
(* Assessment aggregate of retail-safety-scorecard: the AssessmentProvider *)
(* of src/contexts/AssessmentContext.tsx (the provider built on            *)
(* features/assessment/api.ts), the store tables it reads and writes, and  *)
(* the result calculator of features/assessment/utils.ts.                  *)
(*                                                                         *)
(* Every async handler is split at its awaits: a Start action runs the     *)
(* synchronous prefix and leaves a call record in inflight, a later action *)
(* performs the store request and runs the continuation.  A continuation   *)
(* reads the values its closure captured at the start (kept in the call    *)
(* record) and the latest state only through functional updaters.          *)
(***************************************************************************)
EXTENDS Integers, Sequences, FiniteSets, TLC

(* ---------------------------- bounds ----------------------------------- *)
MaxAssessments == 2
TemplateSize == 2
MaxUploads == 2
MaxCalcQuestions == 8
MaxCalls == 6
MaxOverlapCalls == 4
MaxPermLen == 4
MaxAuthEvents == 5
MaxLoadingCalls == 3

(* ---------------------------- domains ---------------------------------- *)
NoUser == "none"
UserIds == {"userA", "userB"}
\* the store names a caller passes: a name, and one that is only whitespace
StoreNames == {"Shop", " "}

\* the characters of a store name
Chars(name) ==
  CASE name = "Shop" -> <<"S", "h", "o", "p">>
    [] name = " " -> <<" ">>
    [] OTHER -> <<>>

\* String.prototype.trim on a character sequence: whitespace removed at both ends
RECURSIVE trim(_)
trim(chars) ==
  IF chars = <<>> THEN <<>>
  ELSE IF Head(chars) = " " THEN trim(Tail(chars))
  ELSE IF chars[Len(chars)] = " " THEN trim(SubSeq(chars, 1, Len(chars) - 1))
  ELSE chars
Null == "null"
Answers == {"yes", "no", "n/a", Null}

\* the public URL of the n-th object stored; the file name is a fresh uuid
PublicUrl(n) == <<"url", n>>

\* the (answer, comment, images) triples the form submits
Edits ==
  {[answer |-> "yes", comment |-> "note", images |-> <<>>],
   [answer |-> "no", comment |-> Null, images |-> <<PublicUrl(1)>>],
   [answer |-> Null, comment |-> Null, images |-> <<>>]}

\* DEFAULT_QUESTIONS: the ordered template, question_number 1..TemplateSize.
DEFAULT_QUESTIONS ==
  [i \in 1..TemplateSize |-> [question_number |-> i, question_text |-> <<"text", i>>]]

\* null for an AssessmentWithQuestions value
NoAssessment ==
  [id |-> 0, user_id |-> NoUser, store_name |-> "", completed |-> FALSE, questions |-> <<>>]

NoCall ==
  [op |-> "none", pc |-> "none", user_id |-> NoUser, id |-> 0, qid |-> 0,
   answer |-> Null, comment |-> Null, name |-> "", snap |-> NoAssessment]

\* nothing returned in the last step
NoOutcome == [call |-> NoCall, result |-> "none", store |-> "none"]

NoResult == [totalQuestions |-> -1, applicableQuestions |-> -1, yesAnswers |-> -1, percentage |-> -1]

VARIABLES
  user,                 \* useAuth().user: NoUser or a user id
  assessments,          \* table assessments: id -> row
  assessment_questions, \* table assessment_questions: id -> row
  question_images,      \* table question_images, in creation order
  storage,              \* objects of bucket assessment-images (their public URLs)
  currentAssessment,    \* useState currentAssessment
  savedAssessments,     \* useState savedAssessments
  loading,              \* useState loading
  error,                \* useState error
  inflight,             \* calls suspended at an await
  outcome,              \* what the call that returned in the last step reported to its caller
  lastResult,           \* the value calculateResults returned last
  calls,                \* number of handler invocations and auth events so far
  slots,                \* how many calls the caller lets overlap; under Spec it awaits each call
  latestRequest,        \* the loadAssessment or createNewAssessment call requested last (SpecOverlap)
  auth                  \* AuthProvider: the auth client's session and the states session, profile, loading

vars == <<user, assessments, assessment_questions, question_images, storage,
          currentAssessment, savedAssessments, loading, error, inflight,
          outcome, lastResult, calls, slots, latestRequest, auth>>

storeVars == <<assessments, assessment_questions, question_images, storage>>

(* ---------------------------- helpers ---------------------------------- *)
\* the uuid the store gives the k-th question of assessment a
QuestionId(a, k) == (a - 1) * TemplateSize + k

SeqOf(S, n) == UNION {[1..m -> S] : m \in 0..n}

Perms(n) == {p \in [1..n -> 1..n] : \A i, j \in 1..n : i # j => p[i] # p[j]}

\* rows of assessment_questions with assessment_id = a, as a set of ids
QuestionsOf(a) == {q \in DOMAIN assessment_questions : assessment_questions[q].assessment_id = a}

\* image_url of the question_images rows of question q, in table order
RECURSIVE ImagesIn(_, _)
ImagesIn(rows, q) ==
  IF rows = <<>> THEN <<>>
  ELSE IF rows[1].question_id = q
       THEN <<rows[1].image_url>> \o ImagesIn(Tail(rows), q)
       ELSE ImagesIn(Tail(rows), q)

Call(op, pc, uid, id, qid, answer, comment, name, snap) ==
  [op |-> op, pc |-> pc, user_id |-> uid, id |-> id, qid |-> qid,
   answer |-> answer, comment |-> comment, name |-> name, snap |-> snap]

\* the call c returned result to its caller; store is what the store answered to
\* its last request: "ok", "error", or "none" when it made no request
Outcome(c, result, store) == [call |-> c, result |-> result, store |-> store]

\* a call that returned before its first request
Rejected(op) == [NoCall EXCEPT !.op = op, !.pc = "rejected", !.user_id = user]

CanStart(c) == Cardinality(inflight) < slots /\ c \notin inflight

\* a handler is invoked, or the auth provider publishes a change
Invoke == calls < MaxCalls /\ calls' = calls + 1 /\ UNCHANGED <<slots, latestRequest, auth>>

\* a suspended call resumes
Resume == UNCHANGED <<calls, slots, latestRequest, auth>>

\* AuthProvider before the first session check: no session, loading = true
NoAuth == [client |-> NoUser, session |-> NoUser, profile |-> NoUser, loading |-> TRUE]

(* ---------------------------- Init ------------------------------------- *)
Init ==
  /\ user = NoUser
  /\ assessments = <<>>
  /\ assessment_questions = <<>>
  /\ question_images = <<>>
  /\ storage = {}
  /\ currentAssessment = NoAssessment
  /\ savedAssessments = <<>>
  /\ loading = TRUE
  /\ error = Null
  /\ inflight = {}
  /\ outcome = NoOutcome
  /\ lastResult = NoResult
  /\ calls = 0
  /\ slots = 1
  /\ latestRequest = NoCall
  /\ auth = NoAuth

(* ------------------- features/assessment/api.ts ------------------------ *)
\* id the store generates for the next assessments row (rows are never deleted)
NewAssessmentId == Cardinality(DOMAIN assessments) + 1

\* createAssessment with the row inserted as already completed
newAssessment_completed(id, storeName, userId) ==
  [id |-> id, user_id |-> userId, store_name |-> storeName, completed |-> TRUE]

\* createAssessment: the row inserted into assessments and returned (.select().single())
newAssessment(id, storeName, userId) ==
  [id |-> id, user_id |-> userId, store_name |-> storeName, completed |-> FALSE]

\* createQuestionsForAssessment numbering the rows by the 0-based array index
questionsToInsert_index(assessmentId) ==
  [i \in 1..Len(DEFAULT_QUESTIONS) |->
     [id |-> QuestionId(assessmentId, i),
      assessment_id |-> assessmentId,
      question_number |-> i - 1,
      question_text |-> DEFAULT_QUESTIONS[i].question_text,
      answer |-> Null,
      comment |-> Null]]

\* createQuestionsForAssessment: questionsToInsert, one entry per template entry
questionsToInsert(assessmentId) ==
  [i \in 1..Len(DEFAULT_QUESTIONS) |->
     [id |-> QuestionId(assessmentId, i),
      assessment_id |-> assessmentId,
      question_number |-> DEFAULT_QUESTIONS[i].question_number,
      question_text |-> DEFAULT_QUESTIONS[i].question_text,
      answer |-> Null,
      comment |-> Null]]

\* the rows of a bulk insert as a table fragment id -> row
InsertedRows(rows) ==
  [q \in {rows[i].id : i \in DOMAIN rows} |->
     LET i == CHOOSE j \in DOMAIN rows : rows[j].id = q IN rows[i]]

\* createQuestionsForAssessment: formattedQuestions built from the returned rows
formattedQuestions(questionsData) ==
  [i \in DOMAIN questionsData |->
     [id |-> questionsData[i].id,
      assessment_id |-> questionsData[i].assessment_id,
      question_number |-> questionsData[i].question_number,
      question_text |-> questionsData[i].question_text,
      answer |-> questionsData[i].answer,
      comment |-> questionsData[i].comment,
      images |-> <<>>]]

\* an assessments row with its questions attached: { ...assessment, questions }
WithQuestions(row, questions) ==
  [id |-> row.id, user_id |-> row.user_id, store_name |-> row.store_name,
   completed |-> row.completed, questions |-> questions]

(* ---------------- AssessmentContext.tsx: createNewAssessment ----------- *)
CreatesPending == {c \in inflight : c.op = "create" /\ c.pc = "assessment"}

createNewAssessment(storeName) ==
  IF user = NoUser
  THEN /\ outcome' = Outcome(Rejected("create"), "unauthenticated", "none")
       /\ UNCHANGED <<user, storeVars, currentAssessment, savedAssessments,
                      loading, error, inflight, lastResult>>
  ELSE LET c == Call("create", "assessment", user, 0, 0, Null, Null, storeName, NoAssessment)
       IN /\ CanStart(c)
          /\ Cardinality(DOMAIN assessments) + Cardinality(CreatesPending) < MaxAssessments
          /\ loading' = TRUE
          /\ error' = Null
          /\ inflight' = inflight \cup {c}
          /\ UNCHANGED <<user, storeVars, currentAssessment, savedAssessments,
                         lastResult>>
          /\ outcome' = NoOutcome

\* await createAssessment(storeName, user.id) resolves
createAssessmentDone(c, ok) ==
  /\ c \in inflight /\ c.op = "create" /\ c.pc = "assessment"
  /\ IF ok
     THEN LET id == NewAssessmentId IN
          /\ assessments' = assessments @@ (id :> newAssessment(id, c.name, c.user_id))
          /\ inflight' = (inflight \ {c}) \cup {[c EXCEPT !.pc = "questions", !.id = id]}
          /\ UNCHANGED loading
          /\ outcome' = NoOutcome
     ELSE /\ inflight' = inflight \ {c}
          /\ loading' = FALSE
          /\ outcome' = Outcome(c, "failed", "error")
          /\ UNCHANGED assessments
  /\ UNCHANGED <<user, assessment_questions, question_images, storage,
                 currentAssessment, savedAssessments, error, lastResult>>

\* await createQuestionsForAssessment(assessment.id) resolves; insert(...).select()
\* returns the inserted rows in the order of the inserted array
createQuestionsDone(c, ok) ==
  /\ c \in inflight /\ c.op = "create" /\ c.pc = "questions"
  /\ inflight' = inflight \ {c}
  /\ loading' = FALSE
  /\ IF ok
     THEN LET rows == questionsToInsert(c.id)
              newA == WithQuestions(newAssessment(c.id, c.name, c.user_id),
                                    formattedQuestions(rows))
          IN /\ assessment_questions' = assessment_questions @@ InsertedRows(rows)
             /\ currentAssessment' = newA
             /\ savedAssessments' = <<newA>> \o savedAssessments
             /\ outcome' = Outcome(c, "ok", "ok")
     ELSE /\ outcome' = Outcome(c, "failed", "error")
          /\ UNCHANGED <<assessment_questions, currentAssessment, savedAssessments>>
  /\ UNCHANGED <<user, assessments, question_images, storage, error, lastResult>>


\* createQuestionsForAssessment in two steps, for callers that let calls
\* overlap: first the store executes the bulk insert, the response still on
\* its way ...
createQuestionsStored(c, ok) ==
  /\ c \in inflight /\ c.op = "create" /\ c.pc = "questions"
  /\ inflight' = (inflight \ {c}) \cup {[c EXCEPT !.pc = IF ok THEN "inserted" ELSE "refused"]}
  /\ assessment_questions' =
       IF ok THEN assessment_questions @@ InsertedRows(questionsToInsert(c.id))
       ELSE assessment_questions
  /\ outcome' = NoOutcome
  /\ UNCHANGED <<user, assessments, question_images, storage, currentAssessment,
                 savedAssessments, loading, error, lastResult>>

\* ... then await createQuestionsForAssessment(assessment.id) resolves and the
\* rest of createNewAssessment runs
createQuestionsResolved(c) ==
  /\ c \in inflight /\ c.op = "create" /\ c.pc \in {"inserted", "refused"}
  /\ inflight' = inflight \ {c}
  /\ loading' = FALSE
  /\ IF c.pc = "inserted"
     THEN LET newA == WithQuestions(newAssessment(c.id, c.name, c.user_id),
                                    formattedQuestions(questionsToInsert(c.id)))
          IN /\ currentAssessment' = newA
             /\ savedAssessments' = <<newA>> \o savedAssessments
             /\ outcome' = Outcome([c EXCEPT !.pc = "questions"], "ok", "ok")
     ELSE /\ outcome' = Outcome([c EXCEPT !.pc = "questions"], "failed", "error")
          /\ UNCHANGED <<currentAssessment, savedAssessments>>
  /\ UNCHANGED <<user, storeVars, error, lastResult>>

(* ------------- api.ts: fetchAssessmentsForUser, loadAssessmentById ----- *)
\* the ids of S as a sequence, largest first: order('created_at', ascending: false);
\* created_at grows with the id
RECURSIVE Descending(_)
Descending(S) ==
  IF S = {} THEN <<>>
  ELSE LET m == CHOOSE x \in S : \A y \in S : y <= x
       IN <<m>> \o Descending(S \ {m})

RECURSIVE Ascending(_)
Ascending(S) ==
  IF S = {} THEN <<>>
  ELSE LET m == CHOOSE x \in S : \A y \in S : x <= y
       IN <<m>> \o Ascending(S \ {m})

\* select('*').eq('assessment_id', a) carries no order clause: the store returns
\* the matching rows in an order of its own, here the permutation p of the ids
QuestionRows(a, p) ==
  LET ids == Ascending(QuestionsOf(a))
  IN [i \in DOMAIN ids |-> assessment_questions[ids[p[i]]]]

\* select('image_url').eq('question_id', q) carries no order clause either: r is
\* the order in which the store scans the rows of question_images
ImageRows(r) == [i \in DOMAIN question_images |-> question_images[r[i]]]

\* the scan orders of the table question_images as it is now
ImageOrders == Perms(Len(question_images))

\* one entry of questionsWithImages: { ...question, images, answer }
questionWithImages(question, imagesError, rows) ==
  [id |-> question.id,
   assessment_id |-> question.assessment_id,
   question_number |-> question.question_number,
   question_text |-> question.question_text,
   answer |-> question.answer,
   comment |-> question.comment,
   images |-> IF imagesError THEN <<>> ELSE ImagesIn(rows, question.id)]

validQuestions(questionsData, imagesError, rows) ==
  [i \in DOMAIN questionsData |-> questionWithImages(questionsData[i], imagesError, rows)]

Failures == {"none", "assessments", "questions", "images"}

\* the permutations the store may apply to the TemplateSize rows of one assessment
RowOrders == Perms(TemplateSize)

\* fetchAssessmentsForUser(userId): the value it resolves to; fail names the
\* query that returns an error, order[a] the row order of assessment a, rows the
\* table question_images in scan order
RECURSIVE hydrateAll(_, _, _, _)
hydrateAll(ids, fail, order, rows) ==
  IF ids = <<>> THEN <<>>
  ELSE LET a == ids[1]
           rest == hydrateAll(Tail(ids), fail, order, rows)
       IN IF fail = "questions" \/ QuestionsOf(a) = {}
          THEN rest
          ELSE <<WithQuestions(assessments[a],
                   validQuestions(QuestionRows(a, order[a]), fail = "images", rows))>> \o rest

fetchAssessmentsForUser(userId, fail, order, rows) ==
  IF fail = "assessments"
  THEN <<>>
  ELSE hydrateAll(Descending({a \in DOMAIN assessments : assessments[a].user_id = userId}),
                  fail, order, rows)

\* loadAssessmentById(assessmentId): the value it resolves to, NoAssessment for null
loadAssessmentById(assessmentId, fail, p, rows) ==
  IF fail = "assessments" \/ assessmentId \notin DOMAIN assessments
  THEN NoAssessment
  ELSE IF fail = "questions"
  THEN NoAssessment
  ELSE IF QuestionsOf(assessmentId) = {}
  THEN WithQuestions(assessments[assessmentId], <<>>)
  ELSE WithQuestions(assessments[assessmentId],
                     validQuestions(QuestionRows(assessmentId, p), fail = "images", rows))

(* ---------------- AssessmentContext.tsx: fetchAssessments -------------- *)
fetchAssessments ==
  IF user = NoUser
  THEN /\ loading' = FALSE
       /\ error' = "User not logged in"
       /\ outcome' = Outcome(Rejected("fetch"), "unauthenticated", "none")
       /\ UNCHANGED <<user, storeVars, currentAssessment, savedAssessments,
                      inflight, lastResult>>
  ELSE LET c == Call("fetch", "list", user, 0, 0, Null, Null, "", NoAssessment)
       IN /\ CanStart(c)
          /\ loading' = TRUE
          /\ error' = Null
          /\ inflight' = inflight \cup {c}
          /\ UNCHANGED <<user, storeVars, currentAssessment, savedAssessments,
                         lastResult>>
          /\ outcome' = NoOutcome

\* await fetchAssessmentsForUser(user.id) resolves
fetchAssessmentsDone(c, fail, order, r) ==
  /\ c \in inflight /\ c.op = "fetch"
  /\ inflight' = inflight \ {c}
  /\ savedAssessments' = fetchAssessmentsForUser(c.user_id, fail, order, ImageRows(r))
  /\ loading' = FALSE
  /\ outcome' = Outcome(c, "ok", IF fail = "none" THEN "ok" ELSE "error")
  /\ UNCHANGED <<user, storeVars, currentAssessment, error, lastResult>>

(* ---------------- AssessmentContext.tsx: loadAssessment ---------------- *)
loadAssessment(assessmentId) ==
  IF user = NoUser
  THEN /\ outcome' = Outcome(Rejected("load"), "unauthenticated", "none")
       /\ UNCHANGED <<user, storeVars, currentAssessment, savedAssessments,
                      loading, error, inflight, lastResult>>
  ELSE LET c == Call("load", "load", user, assessmentId, 0, Null, Null, "", NoAssessment)
       IN /\ CanStart(c)
          /\ loading' = TRUE
          /\ error' = Null
          /\ inflight' = inflight \cup {c}
          /\ UNCHANGED <<user, storeVars, currentAssessment, savedAssessments,
                         lastResult>>
          /\ outcome' = NoOutcome

\* loadAssessment with setLoading(false) in the success branch instead of finally
loadAssessmentDone_noFinally(c, fail, p, r) ==
  /\ c \in inflight /\ c.op = "load"
  /\ inflight' = inflight \ {c}
  /\ LET assessment == loadAssessmentById(c.id, fail, p, ImageRows(r))
     IN IF assessment # NoAssessment
        THEN /\ currentAssessment' = assessment
             /\ loading' = FALSE
             /\ outcome' = Outcome(c, "ok", IF fail = "none" THEN "ok" ELSE "error")
             /\ UNCHANGED error
        ELSE /\ error' = "Failed to load assessment"
             /\ outcome' = Outcome(c, "failed", "error")
             /\ UNCHANGED <<currentAssessment, loading>>
  /\ UNCHANGED <<user, storeVars, savedAssessments, lastResult>>

\* await loadAssessmentById(assessmentId) resolves
loadAssessmentDone(c, fail, p, r) ==
  /\ c \in inflight /\ c.op = "load"
  /\ inflight' = inflight \ {c}
  /\ loading' = FALSE
  /\ LET assessment == loadAssessmentById(c.id, fail, p, ImageRows(r))
     IN IF assessment # NoAssessment
        THEN /\ currentAssessment' = assessment
             /\ outcome' = Outcome(c, "ok", IF fail = "none" THEN "ok" ELSE "error")
             /\ UNCHANGED error
        ELSE /\ error' = "Failed to load assessment"
             /\ outcome' = Outcome(c, "failed", "error")
             /\ UNCHANGED currentAssessment
  /\ UNCHANGED <<user, storeVars, savedAssessments, lastResult>>

(* ---------------- api.ts: updateQuestionInDb, markAssessmentComplete --- *)
\* update({ answer, comment }).eq('id', questionId): the table after the update;
\* an id that matches no row updates nothing and is no error
updateQuestionInDb(questionId, answer, comment) ==
  [q \in DOMAIN assessment_questions |->
     IF q = questionId
     THEN [assessment_questions[q] EXCEPT !.answer = answer, !.comment = comment]
     ELSE assessment_questions[q]]

\* markAssessmentComplete flipping the flag instead of setting it
markAssessmentComplete_toggle(assessmentId) ==
  [a \in DOMAIN assessments |->
     IF a = assessmentId
     THEN [assessments[a] EXCEPT !.completed = ~@]
     ELSE assessments[a]]

\* update({ completed: true }).eq('id', assessmentId): the table after the update
markAssessmentComplete(assessmentId) ==
  [a \in DOMAIN assessments |->
     IF a = assessmentId
     THEN [assessments[a] EXCEPT !.completed = TRUE]
     ELSE assessments[a]]

(* ---------------- AssessmentContext.tsx: updateQuestion ---------------- *)
\* currentAssessment.questions.map(q => q.id === questionId ? {...q, answer, comment, images} : q)
updatedQuestions(questions, questionId, answer, comment, images) ==
  [i \in DOMAIN questions |->
     IF questions[i].id = questionId
     THEN [questions[i] EXCEPT !.answer = answer, !.comment = comment, !.images = images]
     ELSE questions[i]]

updateQuestion(questionId, answer, comment, images) ==
  IF currentAssessment = NoAssessment
  THEN /\ outcome' = Outcome(Rejected("update"), "no_assessment", "none")
       /\ UNCHANGED <<user, storeVars, currentAssessment, savedAssessments,
                      loading, error, inflight, lastResult>>
  ELSE LET c == Call("update", "update", user, currentAssessment.id, questionId,
                     answer, comment, "", currentAssessment)
       IN /\ CanStart(c)
          /\ currentAssessment' =
               [currentAssessment EXCEPT
                  !.questions = updatedQuestions(currentAssessment.questions,
                                                 questionId, answer, comment, images)]
          /\ inflight' = inflight \cup {c}
          /\ UNCHANGED <<user, storeVars, savedAssessments, loading, error,
                         lastResult>>
          /\ outcome' = NoOutcome

\* updateQuestion invoked through a handler created in the render that issued
\* the call c0, which is still in flight (QuestionCard keeps onUpdate in the
\* FileReader callback of handleImageUpload): the closure holds the user and the
\* currentAssessment of that render, c0.snap, and setCurrentAssessment is given a
\* value built from it
updateQuestionInRender(c0, questionId, answer, comment, images) ==
  LET closure == c0.snap
      c == Call("update", "update", c0.user_id, closure.id, questionId,
                answer, comment, "", closure)
  IN /\ c0 \in inflight /\ c0.op = "update"
     /\ closure # NoAssessment
     /\ CanStart(c)
     /\ currentAssessment' =
          [closure EXCEPT
             !.questions = updatedQuestions(closure.questions,
                                            questionId, answer, comment, images)]
     /\ inflight' = inflight \cup {c}
     /\ UNCHANGED <<user, storeVars, savedAssessments, loading, error, lastResult>>
     /\ outcome' = NoOutcome

\* await updateQuestionInDb(questionId, answer, comment) resolves
updateQuestionDone(c, ok) ==
  /\ c \in inflight /\ c.op = "update"
  /\ inflight' = inflight \ {c}
  /\ IF ok
     THEN /\ assessment_questions' = updateQuestionInDb(c.qid, c.answer, c.comment)
          /\ outcome' = Outcome(c, "ok", "ok")
          /\ UNCHANGED error
     ELSE /\ error' = "Database update failed"
          /\ outcome' = Outcome(c, "failed", "error")
          /\ UNCHANGED assessment_questions
  /\ UNCHANGED <<user, assessments, question_images, storage, currentAssessment,
                 savedAssessments, loading, lastResult>>

(* ---------------- AssessmentContext.tsx: completeAssessment ------------ *)
completeAssessment ==
  IF currentAssessment = NoAssessment
  THEN /\ outcome' = Outcome(Rejected("complete"), "no_assessment", "none")
       /\ UNCHANGED <<user, storeVars, currentAssessment, savedAssessments,
                      loading, error, inflight, lastResult>>
  ELSE LET c == Call("complete", "complete", user, currentAssessment.id, 0,
                     Null, Null, "", currentAssessment)
       IN /\ CanStart(c)
          /\ inflight' = inflight \cup {c}
          /\ UNCHANGED <<user, storeVars, currentAssessment, savedAssessments,
                         loading, error, lastResult>>
          /\ outcome' = NoOutcome

\* await markAssessmentComplete(currentAssessment.id) resolves; c.snap is the
\* currentAssessment the closure of the call captured
completeAssessmentDone(c, ok) ==
  /\ c \in inflight /\ c.op = "complete"
  /\ inflight' = inflight \ {c}
  /\ IF ok
     THEN /\ assessments' = markAssessmentComplete(c.snap.id)
          /\ currentAssessment' = [c.snap EXCEPT !.completed = TRUE]
          /\ savedAssessments' =
               [i \in DOMAIN savedAssessments |->
                  IF savedAssessments[i].id = c.snap.id
                  THEN [savedAssessments[i] EXCEPT !.completed = TRUE]
                  ELSE savedAssessments[i]]
          /\ outcome' = Outcome(c, "ok", "ok")
          /\ UNCHANGED error
     ELSE /\ error' = "Failed to mark assessment as complete"
          /\ outcome' = Outcome(c, "failed", "error")
          /\ UNCHANGED <<assessments, currentAssessment, savedAssessments>>
  /\ UNCHANGED <<user, assessment_questions, question_images, storage, loading, lastResult>>

(* ---------------- AssessmentContext.tsx: uploadImage ------------------- *)
UploadFailures == {"none", "upload", "save"}

uploadImage(questionId) ==
  IF currentAssessment = NoAssessment \/ user = NoUser
  THEN /\ outcome' = Outcome(Rejected("upload"), "rejected", "none")
       /\ UNCHANGED <<user, storeVars, currentAssessment, savedAssessments,
                      loading, error, inflight, lastResult>>
  ELSE LET c == Call("upload", "upload", user, currentAssessment.id, questionId,
                     Null, Null, "", NoAssessment)
       IN /\ CanStart(c)
          /\ Cardinality(storage) + Cardinality({d \in inflight : d.op = "upload"}) < MaxUploads
          /\ inflight' = inflight \cup {c}
          /\ UNCHANGED <<user, storeVars, currentAssessment, savedAssessments,
                         loading, error, lastResult>>
          /\ outcome' = NoOutcome

\* uploadImageForQuestion without the return on uploadError: the row is inserted
\* whether or not the object was stored
uploadImageDone_recordAlways(c, fail) ==
  /\ c \in inflight /\ c.op = "upload"
  /\ inflight' = inflight \ {c}
  /\ LET publicUrl == PublicUrl(Cardinality(storage) + 1)
     IN /\ storage' = IF fail = "upload" THEN storage ELSE storage \cup {publicUrl}
        /\ IF fail # "save"
           THEN /\ question_images' =
                     Append(question_images, [question_id |-> c.qid, image_url |-> publicUrl])
                /\ outcome' = Outcome(c, "ok", "ok")
                /\ UNCHANGED error
           ELSE /\ error' = "Image upload failed"
                /\ outcome' = Outcome(c, "failed", "error")
                /\ UNCHANGED question_images
  /\ UNCHANGED <<user, assessments, assessment_questions, currentAssessment,
                 savedAssessments, loading, lastResult>>

\* await uploadImageForQuestion(file, questionId, user.id, currentAssessment.id) resolves
uploadImageDone(c, fail) ==
  /\ c \in inflight /\ c.op = "upload"
  /\ inflight' = inflight \ {c}
  /\ LET publicUrl == PublicUrl(Cardinality(storage) + 1)
     IN /\ storage' = IF fail = "upload" THEN storage ELSE storage \cup {publicUrl}
        /\ IF fail = "none"
           THEN /\ question_images' =
                     Append(question_images, [question_id |-> c.qid, image_url |-> publicUrl])
                /\ outcome' = Outcome(c, "ok", "ok")
                /\ UNCHANGED error
           ELSE /\ error' = "Image upload failed"
                /\ outcome' = Outcome(c, "failed", "error")
                /\ UNCHANGED question_images
  /\ UNCHANGED <<user, assessments, assessment_questions, currentAssessment,
                 savedAssessments, loading, lastResult>>

(* ---------------- features/assessment/utils.ts ------------------------- *)
\* Math.floor in the place of Math.round
MathRound_floor(num, den) == (100 * num) \div den

\* Math.round(num / den * 100) for integers num >= 0, den > 0: the nearest
\* integer, a half rounding up
MathRound(num, den) == (200 * num + den) \div (2 * den)

\* calculateAssessmentResults counting the yes answers from the second question on
calculateAssessmentResults_skipFirst(assessment) ==
  IF assessment = NoAssessment
  THEN [totalQuestions |-> 0, applicableQuestions |-> 0, yesAnswers |-> 0, percentage |-> 0]
  ELSE LET questions == assessment.questions
           totalQuestions == Len(questions)
           applicableQuestions ==
             Cardinality({i \in DOMAIN questions : questions[i].answer # "n/a"})
           yesAnswers ==
             Cardinality({i \in DOMAIN questions : i > 1 /\ questions[i].answer = "yes"})
           percentage ==
             IF applicableQuestions > 0 THEN MathRound(yesAnswers, applicableQuestions) ELSE 0
       IN [totalQuestions |-> totalQuestions,
           applicableQuestions |-> applicableQuestions,
           yesAnswers |-> yesAnswers,
           percentage |-> percentage]

\* calculateAssessmentResults(assessment), NoAssessment standing for null
calculateAssessmentResults(assessment) ==
  IF assessment = NoAssessment
  THEN [totalQuestions |-> 0, applicableQuestions |-> 0, yesAnswers |-> 0, percentage |-> 0]
  ELSE LET questions == assessment.questions
           totalQuestions == Len(questions)
           applicableQuestions ==
             Cardinality({i \in DOMAIN questions : questions[i].answer # "n/a"})
           yesAnswers ==
             Cardinality({i \in DOMAIN questions : questions[i].answer = "yes"})
           percentage ==
             IF applicableQuestions > 0 THEN MathRound(yesAnswers, applicableQuestions) ELSE 0
       IN [totalQuestions |-> totalQuestions,
           applicableQuestions |-> applicableQuestions,
           yesAnswers |-> yesAnswers,
           percentage |-> percentage]

(* ---------------- AssessmentContext.tsx: calculateResults -------------- *)
calculateResults ==
  /\ IF currentAssessment = NoAssessment
     THEN /\ outcome' = Outcome(Rejected("calculate"), "threw", "none")
          /\ lastResult' = NoResult
     ELSE /\ outcome' = Outcome(Call("calculate", "done", user, currentAssessment.id, 0, Null, Null, "", NoAssessment), "ok", "none")
          /\ lastResult' = calculateAssessmentResults(currentAssessment)
  /\ UNCHANGED <<user, storeVars, currentAssessment, savedAssessments,
                 loading, error, inflight>>

(* ---------------- AssessmentContext.tsx: useEffect on [user] ----------- *)
\* the auth provider publishes a signed-in user; the effect calls fetchAssessments
SignIn(u) ==
  LET c == Call("fetch", "list", u, 0, 0, Null, Null, "", NoAssessment)
  IN /\ user = NoUser
     /\ CanStart(c)
     /\ user' = u
     /\ loading' = TRUE
     /\ error' = Null
     /\ inflight' = inflight \cup {c}
     /\ UNCHANGED <<storeVars, currentAssessment, savedAssessments, lastResult>>
     /\ outcome' = NoOutcome

\* the auth provider publishes null; the effect clears the assessment state
SignOut ==
  /\ user # NoUser
  /\ user' = NoUser
  /\ savedAssessments' = <<>>
  /\ currentAssessment' = NoAssessment
  /\ loading' = FALSE
  /\ outcome' = NoOutcome
  /\ UNCHANGED <<storeVars, error, inflight, lastResult>>

(* ---------------------------- specification ---------------------------- *)
\* the question ids a caller can name: ids are uuids, known only once the row exists
QuestionIds == DOMAIN assessment_questions

Next ==
  \/ \E u \in UserIds : Invoke /\ SignIn(u)
  \/ Invoke /\ SignOut
  \/ \E storeName \in StoreNames : Invoke /\ createNewAssessment(storeName)
  \/ \E c \in inflight, ok \in BOOLEAN : Resume /\ createAssessmentDone(c, ok)
  \/ \E c \in inflight, ok \in BOOLEAN : Resume /\ createQuestionsDone(c, ok)
  \/ Invoke /\ fetchAssessments
  \/ \E c \in inflight, fail \in Failures, order \in [DOMAIN assessments -> RowOrders],
          r \in ImageOrders :
       Resume /\ fetchAssessmentsDone(c, fail, order, r)
  \/ \E a \in 1..MaxAssessments : Invoke /\ loadAssessment(a)
  \/ \E c \in inflight, fail \in Failures, p \in RowOrders, r \in ImageOrders :
       Resume /\ loadAssessmentDone(c, fail, p, r)
  \/ \E q \in QuestionIds, e \in Edits :
       Invoke /\ updateQuestion(q, e.answer, e.comment, e.images)
  \/ \E c \in inflight, ok \in BOOLEAN : Resume /\ updateQuestionDone(c, ok)
  \/ Invoke /\ completeAssessment
  \/ \E c \in inflight, ok \in BOOLEAN : Resume /\ completeAssessmentDone(c, ok)
  \/ \E q \in QuestionIds : Invoke /\ uploadImage(q)
  \/ \E c \in inflight, fail \in UploadFailures : Resume /\ uploadImageDone(c, fail)

Spec == Init /\ [][Next]_vars

(* ---------- the provider with a caller that lets two calls overlap ------- *)
\* the call record this step adds to inflight
NewCall == CHOOSE d \in inflight' \ inflight : TRUE

InvokeOverlap == calls < MaxOverlapCalls /\ calls' = calls + 1 /\ UNCHANGED <<slots, auth>>

\* this step requested a load or a create, unless the handler returned at once
Requested ==
  latestRequest' = IF inflight' \ inflight = {} THEN latestRequest ELSE NewCall

\* the create call c moved on to its second request
Continued(c) ==
  latestRequest' = IF latestRequest = c /\ inflight' \ inflight # {}
                   THEN NewCall ELSE latestRequest

OverlapInit ==
  /\ user = NoUser
  /\ assessments = <<>>
  /\ assessment_questions = <<>>
  /\ question_images = <<>>
  /\ storage = {}
  /\ currentAssessment = NoAssessment
  /\ savedAssessments = <<>>
  /\ loading = TRUE
  /\ error = Null
  /\ inflight = {}
  /\ outcome = NoOutcome
  /\ lastResult = NoResult
  /\ calls = 0
  /\ slots = 2
  /\ latestRequest = NoCall
  /\ auth = NoAuth

OverlapNext ==
  \/ \E u \in UserIds : InvokeOverlap /\ SignIn(u) /\ UNCHANGED latestRequest
  \/ InvokeOverlap /\ SignOut /\ UNCHANGED latestRequest
  \/ \E storeName \in StoreNames :
       InvokeOverlap /\ createNewAssessment(storeName) /\ Requested
  \/ \E c \in inflight, ok \in BOOLEAN :
       UNCHANGED <<calls, slots, auth>> /\ createAssessmentDone(c, ok) /\ Continued(c)
  \/ \E c \in inflight, ok \in BOOLEAN :
       UNCHANGED <<calls, slots, auth>> /\ createQuestionsStored(c, ok) /\ Continued(c)
  \/ \E c \in inflight : Resume /\ createQuestionsResolved(c)
  \/ InvokeOverlap /\ fetchAssessments /\ UNCHANGED latestRequest
  \/ \E c \in inflight, fail \in Failures, order \in [DOMAIN assessments -> RowOrders],
          r \in ImageOrders :
       Resume /\ fetchAssessmentsDone(c, fail, order, r)
  \/ \E a \in 1..MaxAssessments : InvokeOverlap /\ loadAssessment(a) /\ Requested
  \/ \E c \in inflight, fail \in Failures, p \in RowOrders, r \in ImageOrders :
       Resume /\ loadAssessmentDone(c, fail, p, r)
  \/ \E q \in QuestionIds, e \in Edits :
       InvokeOverlap /\ updateQuestion(q, e.answer, e.comment, e.images)
                     /\ UNCHANGED latestRequest
  \/ \E c0 \in inflight, q \in QuestionIds, e \in Edits :
       InvokeOverlap /\ updateQuestionInRender(c0, q, e.answer, e.comment, e.images)
                     /\ UNCHANGED latestRequest
  \/ \E c \in inflight, ok \in BOOLEAN : Resume /\ updateQuestionDone(c, ok)
  \/ InvokeOverlap /\ completeAssessment /\ UNCHANGED latestRequest
  \/ \E c \in inflight, ok \in BOOLEAN : Resume /\ completeAssessmentDone(c, ok)
  \/ \E q \in QuestionIds : InvokeOverlap /\ uploadImage(q) /\ UNCHANGED latestRequest
  \/ \E c \in inflight, fail \in UploadFailures : Resume /\ uploadImageDone(c, fail)

SpecOverlap == OverlapInit /\ [][OverlapNext]_vars

\* the store answers every request of createNewAssessment, fetchAssessments and
\* loadAssessment, with data or with an error, and the continuation then runs
CreateResponds ==
  \/ \E c \in inflight, ok \in BOOLEAN :
       UNCHANGED <<calls, slots, auth>> /\ createAssessmentDone(c, ok) /\ Continued(c)
  \/ \E c \in inflight, ok \in BOOLEAN :
       UNCHANGED <<calls, slots, auth>> /\ createQuestionsStored(c, ok) /\ Continued(c)
  \/ \E c \in inflight : Resume /\ createQuestionsResolved(c)

FetchResponds ==
  \E c \in inflight, fail \in Failures, order \in [DOMAIN assessments -> RowOrders],
     r \in ImageOrders :
    Resume /\ fetchAssessmentsDone(c, fail, order, r)

LoadResponds ==
  \E c \in inflight, fail \in Failures, p \in RowOrders, r \in ImageOrders :
    Resume /\ loadAssessmentDone(c, fail, p, r)

\* the three operations that drive the loading flag, with a caller that lets
\* two calls overlap, and the sign-in and sign-out of the user
InvokeLoading == calls < MaxLoadingCalls /\ calls' = calls + 1 /\ UNCHANGED <<slots, auth>>

LoadingNext ==
  \/ \E u \in UserIds : InvokeLoading /\ SignIn(u) /\ UNCHANGED latestRequest
  \/ InvokeLoading /\ SignOut /\ UNCHANGED latestRequest
  \/ \E storeName \in StoreNames :
       InvokeLoading /\ createNewAssessment(storeName) /\ Requested
  \/ InvokeLoading /\ fetchAssessments /\ UNCHANGED latestRequest
  \/ \E a \in 1..MaxAssessments : InvokeLoading /\ loadAssessment(a) /\ Requested
  \/ CreateResponds
  \/ FetchResponds
  \/ LoadResponds

SpecLoading ==
  /\ OverlapInit
  /\ [][LoadingNext]_vars
  /\ WF_vars(CreateResponds)
  /\ WF_vars(FetchResponds)
  /\ WF_vars(LoadResponds)

\* the calculator on its own: every assessment of up to MaxCalcQuestions questions
CalcAssessments ==
  {NoAssessment} \cup
  {[id |-> 1, user_id |-> "userA", store_name |-> "Shop", completed |-> FALSE,
    questions |-> [i \in DOMAIN as |->
                     [id |-> i, assessment_id |-> 1, question_number |-> i,
                      question_text |-> <<"text", i>>, answer |-> as[i],
                      comment |-> Null, images |-> <<>>]]] :
     as \in SeqOf(Answers, MaxCalcQuestions)}

CalcInit ==
  /\ user = "userA"
  /\ assessments = <<>>
  /\ assessment_questions = <<>>
  /\ question_images = <<>>
  /\ storage = {}
  /\ currentAssessment \in CalcAssessments
  /\ savedAssessments = <<>>
  /\ loading = FALSE
  /\ error = Null
  /\ inflight = {}
  /\ outcome = NoOutcome
  /\ lastResult = NoResult
  /\ calls = 0
  /\ slots = 1
  /\ latestRequest = NoCall
  /\ auth = NoAuth

CalcNext == Resume /\ calculateResults

SpecCalc == CalcInit /\ [][CalcNext]_vars

(* ---------------- contexts/AuthContext.tsx: AuthProvider --------------- *)
\* the frame of the AuthProvider steps: the assessment provider and the tables
assessmentVars ==
  <<assessments, assessment_questions, question_images, storage, currentAssessment,
    savedAssessments, loading, error, outcome, lastResult, slots, latestRequest>>

AuthEvent == calls < MaxAuthEvents /\ calls' = calls + 1

\* the auth client reports the session currentSession (onAuthStateChange, or
\* the initial getSession); handleSessionChange runs up to await fetchProfile.
\* The call record carries the number of the event, which tells apart two
\* fetches for the same user
handleSessionChange(currentSession) ==
  /\ IF currentSession # NoUser
     THEN LET c == Call("profile", "fetchProfile", currentSession, calls + 1, 0, Null,
                        Null, "", NoAssessment)
          IN /\ auth' = [auth EXCEPT !.client = currentSession, !.session = currentSession]
             /\ inflight' = inflight \cup {c}
             /\ UNCHANGED user
     ELSE /\ auth' = [client |-> NoUser, session |-> NoUser, profile |-> NoUser,
                      loading |-> FALSE]
          /\ user' = NoUser
          /\ UNCHANGED inflight
  /\ UNCHANGED assessmentVars

\* await fetchProfile(currentUser.id) resolves, with the profile row or null;
\* the user is set from the session the handler was called with
fetchProfileDone(c, found) ==
  /\ c \in inflight /\ c.op = "profile"
  /\ inflight' = inflight \ {c}
  /\ user' = c.user_id
  /\ auth' = [auth EXCEPT !.profile = IF found THEN c.user_id ELSE @, !.loading = FALSE]
  /\ UNCHANGED assessmentVars

\* signOut() up to await supabase.auth.signOut()
signOut ==
  LET c == Call("signOut", "signOut", user, 0, 0, Null, Null, "", NoAssessment)
  IN /\ c \notin inflight
     /\ inflight' = inflight \cup {c}
     /\ UNCHANGED <<user, auth>>
     /\ UNCHANGED assessmentVars

SignOutResults == {"ok", "error", "threw"}

\* await supabase.auth.signOut() resolves: the client has dropped its session
\* ("ok"), or it returns an error and keeps it, or the call throws
signOutDone(c, result) ==
  /\ c \in inflight /\ c.op = "signOut"
  /\ inflight' = inflight \ {c}
  /\ IF result = "threw"
     THEN UNCHANGED <<user, auth>>
     ELSE /\ user' = NoUser
          /\ auth' = [auth EXCEPT !.client = IF result = "ok" THEN NoUser ELSE @,
                                  !.session = NoUser, !.profile = NoUser]
  /\ UNCHANGED assessmentVars

AuthNext ==
  \/ \E currentSession \in UserIds \cup {NoUser} :
       AuthEvent /\ handleSessionChange(currentSession)
  \/ \E c \in inflight, found \in BOOLEAN : UNCHANGED calls /\ fetchProfileDone(c, found)
  \/ AuthEvent /\ signOut
  \/ \E c \in inflight, result \in SignOutResults : UNCHANGED calls /\ signOutDone(c, result)

SpecAuth == Init /\ [][AuthNext]_vars

(* ============================ properties =============================== *)
Unanswered(questions) ==
  Cardinality({i \in DOMAIN questions : questions[i].answer = Null})

AllAnswered(assessment) ==
  /\ assessment.questions # <<>>
  /\ Unanswered(assessment.questions) = 0

\* the entries of assessment.questions with the id questionId
QuestionById(assessment, questionId) ==
  {assessment.questions[i] : i \in {j \in DOMAIN assessment.questions :
                                      assessment.questions[j].id = questionId}}

\* the call c returns in this step
Returns(c) == c \in inflight /\ c \notin inflight'

\* C1: when createNewAssessment has succeeded, the assessment it made current
\* has exactly N questions, N the template size, numbered 1..N in template
\* order, each unanswered with no comment and no image; the store holds
\* exactly these N rows for it, their question_number values being {1..N}.
C1_CreateYieldsTemplate ==
  (outcome.call.op = "create" /\ outcome.result = "ok") =>
    LET N == Len(DEFAULT_QUESTIONS)
        qs == currentAssessment.questions
        rows == QuestionsOf(outcome.call.id)
    IN /\ currentAssessment.id = outcome.call.id
       /\ currentAssessment.store_name = outcome.call.name
       /\ Len(qs) = N
       /\ \A i \in 1..Len(qs) :
            /\ qs[i].question_number = i
            /\ qs[i].question_text = DEFAULT_QUESTIONS[i].question_text
            /\ qs[i].answer = Null
            /\ qs[i].comment = Null
            /\ qs[i].images = <<>>
       /\ Cardinality(rows) = N
       /\ {assessment_questions[q].question_number : q \in rows} = 1..N
       /\ \A q \in rows : /\ assessment_questions[q].answer = Null
                          /\ assessment_questions[q].comment = Null
                          /\ ImagesIn(question_images, q) = <<>>

C1_Witness ==
  /\ outcome.call.op = "create"
  /\ outcome.result = "ok"
  /\ outcome.call.name \in StoreNames
  /\ Len(currentAssessment.questions) = TemplateSize

\* C2: once no createNewAssessment call is in progress, every assessments row
\* has at least one assessment_questions row (a failed question insert leaves
\* no assessment behind).
C2_NoAssessmentWithoutQuestions ==
  (\A c \in inflight : c.op # "create") =>
    \A a \in DOMAIN assessments : QuestionsOf(a) # {}

\* C3: a completeAssessment call made while a question of the assessment is
\* unanswered is rejected, and the completion flag stays false in the store
\* and in memory.
C3_CompleteRejectedWhileUnanswered ==
  (/\ outcome.call.op = "complete"
   /\ outcome.call.pc # "rejected"
   /\ ~outcome.call.snap.completed
   /\ Unanswered(outcome.call.snap.questions) > 0) =>
    /\ outcome.result # "ok"
    /\ ~assessments[outcome.call.id].completed
    /\ ~currentAssessment.completed

\* C4: calculate returns applicableQuestions = the number of questions answered
\* yes or no (n/a and unanswered both excluded), totalQuestions = the number of
\* questions and yesAnswers = the number answered yes.
C4_ApplicableIsYesOrNo ==
  (outcome.call.op = "calculate" /\ outcome.result = "ok") =>
    LET qs == currentAssessment.questions IN
    /\ lastResult.totalQuestions = Len(qs)
    /\ lastResult.yesAnswers = Cardinality({i \in DOMAIN qs : qs[i].answer = "yes"})
    /\ lastResult.applicableQuestions =
         Cardinality({i \in DOMAIN qs : qs[i].answer \in {"yes", "no"}})

\* C5: calculate never fails on an assessment; the percentage it returns is
\* yesAnswers / applicableQuestions * 100 rounded to the nearest integer (a half
\* rounding up), 0 when applicableQuestions is 0 and when no question is
\* answered yes or no; with zero questions every field is 0.
C5_PercentageRounded ==
  (outcome.call.op = "calculate" /\ currentAssessment # NoAssessment) =>
    LET qs == currentAssessment.questions
        r == lastResult
    IN /\ outcome.result = "ok"
       /\ r.yesAnswers = Cardinality({i \in DOMAIN qs : qs[i].answer = "yes"})
       /\ r.percentage \in 0..100
       /\ r.applicableQuestions = 0 => r.percentage = 0
       /\ r.applicableQuestions > 0 =>
            /\ 2 * r.applicableQuestions * r.percentage
                 <= 200 * r.yesAnswers + r.applicableQuestions
            /\ 200 * r.yesAnswers + r.applicableQuestions
                 < 2 * r.applicableQuestions * (r.percentage + 1)
       /\ (\A i \in DOMAIN qs : qs[i].answer \notin {"yes", "no"}) => r.percentage = 0
       /\ qs = <<>> => /\ r.totalQuestions = 0
                       /\ r.applicableQuestions = 0
                       /\ r.yesAnswers = 0
                       /\ r.percentage = 0

\* 1 yes of 8 applicable: 12.5 rounds to 13
C5_Witness ==
  /\ outcome.call.op = "calculate"
  /\ outcome.result = "ok"
  /\ lastResult.applicableQuestions = 8
  /\ lastResult.yesAnswers = 1
  /\ lastResult.percentage = 13

\* C6: an updateQuestion call whose questionId is a question of another
\* assessment than the loaded one is rejected and writes nothing: the tables
\* assessment_questions and question_images and the in-memory assessment are
\* as before.
C6_ForeignQuestionRejected ==
  [][\A c \in inflight :
       (/\ c.op = "update"
        /\ Returns(c)
        /\ c.qid \in DOMAIN assessment_questions
        /\ assessment_questions[c.qid].assessment_id # c.id) =>
         /\ outcome'.result # "ok"
         /\ assessment_questions' = assessment_questions
         /\ question_images' = question_images
         /\ currentAssessment' = currentAssessment]_vars

\* C7: when the write of an updateQuestion call has failed, the in-memory
\* question still has the answer, comment and images it had when the call
\* was made.
C7_FailedUpdateLeavesMemory ==
  (/\ outcome.call.op = "update"
   /\ outcome.result = "failed"
   /\ currentAssessment.id = outcome.call.id) =>
    QuestionById(currentAssessment, outcome.call.qid)
      = QuestionById(outcome.call.snap, outcome.call.qid)

\* C8: a loadAssessment of an assessment whose user_id is not the requesting
\* user fails, and currentAssessment does not come to hold that assessment.
C8_LoadOfForeignAssessmentFails ==
  (/\ outcome.call.op = "load"
   /\ outcome.call.pc # "rejected"
   /\ outcome.call.id \in DOMAIN assessments
   /\ assessments[outcome.call.id].user_id # outcome.call.user_id) =>
    /\ outcome.result = "failed"
    /\ currentAssessment.id # outcome.call.id

\* C9: the persisted completion flag is monotone: no step deletes an
\* assessments row or takes its completed flag from true to false, and a row
\* that a step inserts has completed = false.
C9_CompletedMonotone ==
  [][/\ \A a \in DOMAIN assessments :
          /\ a \in DOMAIN assessments'
          /\ assessments[a].completed => assessments'[a].completed
     /\ \A a \in DOMAIN assessments' \ DOMAIN assessments :
          ~assessments'[a].completed]_vars

\* an updateQuestion of a completed assessment was persisted
C9_Witness ==
  /\ outcome.call.op = "update"
  /\ outcome.result = "ok"
  /\ outcome.call.id \in DOMAIN assessments
  /\ assessments[outcome.call.id].completed

\* C10: a completeAssessment call on an assessment that is already completed
\* and fully answered succeeds whenever the store accepts the request, leaves
\* the persisted flag true, and changes no assessment_questions or
\* question_images row; when nothing else changed the in-memory assessment
\* during the call, its questions are as before and its flag is true.
C10_CompleteIdempotent ==
  [][\A c \in inflight :
       (/\ c.op = "complete"
        /\ Returns(c)
        /\ c.id \in DOMAIN assessments
        /\ assessments[c.id].completed
        /\ AllAnswered(c.snap)
        /\ outcome'.store = "ok") =>
         /\ outcome'.result = "ok"
         /\ assessments'[c.id].completed
         /\ assessment_questions' = assessment_questions
         /\ question_images' = question_images
         /\ currentAssessment = c.snap =>
              /\ currentAssessment'.completed
              /\ currentAssessment'.id = currentAssessment.id
              /\ currentAssessment'.questions = currentAssessment.questions]_vars

\* a second completeAssessment, made on the assessment the first one completed
C10_Witness ==
  /\ outcome.call.op = "complete"
  /\ outcome.result = "ok"
  /\ outcome.call.snap.completed
  /\ AllAnswered(outcome.call.snap)
  /\ assessments[outcome.call.id].completed
  /\ currentAssessment.completed

\* C11: read-your-writes.  Right after an updateQuestion call on the current
\* assessment has succeeded, every read of that assessment the session can
\* make shows the written question: the in-memory assessment has the answer
\* and comment of the call, the copy of the assessment in savedAssessments
\* holds the same question, and a loadAssessment of the same id returns the
\* same question, whatever order the store scans its rows in.
C11_ReadYourWrites ==
  (/\ outcome.call.op = "update"
   /\ outcome.result = "ok"
   /\ currentAssessment.id = outcome.call.id
   /\ QuestionById(currentAssessment, outcome.call.qid) # {}) =>
    LET q == outcome.call.qid
        written == QuestionById(currentAssessment, q)
    IN /\ \A w \in written : /\ w.answer = outcome.call.answer
                             /\ w.comment = outcome.call.comment
       /\ \A i \in DOMAIN savedAssessments :
            savedAssessments[i].id = outcome.call.id =>
              QuestionById(savedAssessments[i], q) = written
       /\ \A p \in RowOrders, r \in ImageOrders :
            QuestionById(loadAssessmentById(outcome.call.id, "none", p, ImageRows(r)), q)
              = written

\* the ids of the questions of an in-memory assessment
IdsOf(assessment) == {assessment.questions[i].id : i \in DOMAIN assessment.questions}

\* C12: two updateQuestion calls for two different questions of the current
\* assessment that were in flight at the same time and have both resolved
\* successfully leave both new answers and comments in the store and in the
\* in-memory assessment.  d is the call that resolved in the step before,
\* while c was still in flight.
C12_OverlappingUpdatesKeepBoth ==
  [][\A c \in inflight :
       LET d == outcome.call IN
       (/\ c.op = "update"
        /\ Returns(c)
        /\ outcome'.result = "ok"
        /\ d.op = "update"
        /\ outcome.result = "ok"
        /\ d.id = c.id
        /\ d.qid # c.qid
        /\ currentAssessment.id = c.id
        /\ {c.qid, d.qid} \subseteq IdsOf(currentAssessment)) =>
         /\ assessment_questions'[c.qid].answer = c.answer
         /\ assessment_questions'[c.qid].comment = c.comment
         /\ assessment_questions'[d.qid].answer = d.answer
         /\ assessment_questions'[d.qid].comment = d.comment
         /\ \A w \in QuestionById(currentAssessment', c.qid) :
              w.answer = c.answer /\ w.comment = c.comment
         /\ \A w \in QuestionById(currentAssessment', d.qid) :
              w.answer = d.answer /\ w.comment = d.comment]_vars

\* C13: a late response is discarded.  When a loadAssessment or
\* createNewAssessment call returns after a later loadAssessment or
\* createNewAssessment was requested (it is not latestRequest any more), the
\* step leaves currentAssessment naming the assessment it named before.
C13_LateResponseDiscarded ==
  [][\A c \in inflight :
       (/\ c.op \in {"load", "create"}
        /\ Returns(c)
        /\ c # latestRequest) =>
         currentAssessment'.id = currentAssessment.id]_vars

\* C14: a create, list, load, updateQuestion, complete or uploadImage call
\* made while no user is signed in is rejected, and makes no request to the
\* store.
C14_UnauthenticatedRejected ==
  (/\ outcome.call.op \in {"create", "fetch", "load", "update", "complete", "upload"}
   /\ outcome.call.user_id = NoUser) =>
    /\ outcome.result # "ok"
    /\ outcome.store = "none"

\* the assessment with its question list rearranged by the permutation p
Shuffled(assessment, p) ==
  [assessment EXCEPT !.questions = [i \in DOMAIN p |-> assessment.questions[p[i]]]]

\* the permutation of 1..n that exchanges i and j
Swap(n, i, j) == [k \in 1..n |-> IF k = i THEN j ELSE IF k = j THEN i ELSE k]

\* C15: calculate is deterministic and order-independent.  A calculateResults
\* step leaves the assessment as it was; the result equals what a second call
\* on the same assessment returns, and what calculate returns on the question
\* list with any two questions exchanged (the exchanges generate every
\* permutation) and, for lists of up to MaxPermLen questions, on every
\* permutation of the list.
C15_CalculateOrderIndependent ==
  [][(outcome'.call.op = "calculate" /\ outcome'.result = "ok") =>
       LET n == Len(currentAssessment.questions) IN
       /\ currentAssessment' = currentAssessment
       /\ calculateAssessmentResults(currentAssessment') = lastResult'
       /\ \A i, j \in 1..n :
            calculateAssessmentResults(Shuffled(currentAssessment, Swap(n, i, j)))
              = lastResult'
       /\ n <= MaxPermLen =>
            \A p \in Perms(n) :
              calculateAssessmentResults(Shuffled(currentAssessment, p)) = lastResult']_vars

\* results of an assessment whose questions differ: yes, n/a, unanswered, no
C15_Witness ==
  /\ outcome.call.op = "calculate"
  /\ outcome.result = "ok"
  /\ Len(currentAssessment.questions) = 4
  /\ currentAssessment.questions[1].answer = "yes"
  /\ currentAssessment.questions[2].answer = "n/a"
  /\ currentAssessment.questions[3].answer = Null
  /\ currentAssessment.questions[4].answer = "no"
  /\ lastResult.percentage = 33

\* C16: right after an updateQuestion(q, answer, comment, images) call on the
\* current assessment has succeeded, a load of the assessment from the store
\* returns q with that answer, that comment and that image list (the list the
\* call gave the in-memory question), whatever order the store scans its rows in.
C16_UpdatePersistsAllFields ==
  (/\ outcome.call.op = "update"
   /\ outcome.result = "ok"
   /\ currentAssessment.id = outcome.call.id
   /\ outcome.call.qid \in IdsOf(currentAssessment)) =>
    \A p \in RowOrders, r \in ImageOrders :
      LET loaded == loadAssessmentById(outcome.call.id, "none", p, ImageRows(r))
      IN /\ outcome.call.qid \in IdsOf(loaded)
         /\ \A l \in QuestionById(loaded, outcome.call.qid),
               w \in QuestionById(currentAssessment, outcome.call.qid) :
              /\ l.answer = outcome.call.answer
              /\ l.comment = outcome.call.comment
              /\ l.images = w.images

\* C17: a load that succeeds shows, for every question, the URLs the
\* successful uploadImage calls stored for it, each after all URLs uploaded
\* earlier for that question (question_images is appended to in upload order
\* and nothing else writes it, updateQuestion included).
C17_LoadShowsUploadsInAppendOrder ==
  (/\ outcome.call.op = "load"
   /\ outcome.result = "ok"
   /\ outcome.store = "ok"
   /\ currentAssessment.id = outcome.call.id) =>
    \A i \in DOMAIN currentAssessment.questions :
      currentAssessment.questions[i].images
        = ImagesIn(question_images, currentAssessment.questions[i].id)

\* C18: uploadImage records a reference only for a stored object. An uploadImage
\* call whose storage upload failed (no object was added) adds no row to
\* question_images, leaves the in-memory assessment as it was and returns null;
\* and every row of question_images points to an object that is in storage.
C18_ReferenceOnlyForStoredObject ==
  [][/\ \A c \in inflight :
          (c.op = "upload" /\ Returns(c) /\ storage' = storage) =>
            /\ question_images' = question_images
            /\ currentAssessment' = currentAssessment
            /\ outcome'.call = c /\ outcome'.result = "failed"
     /\ \A i \in DOMAIN question_images' : question_images'[i].image_url \in storage'
    ]_vars

\* an upload was recorded, and the next upload has just failed at the storage step
C18_Witness ==
  /\ outcome.call.op = "upload" /\ outcome.result = "failed"
  /\ Cardinality(storage) = 1 /\ Len(question_images) = 1
  /\ currentAssessment # NoAssessment

\* the assessments of userId in the store, most recent first
OwnedBy(userId) ==
  Descending({a \in DOMAIN assessments : assessments[a].user_id = userId})

\* C19: when fetchAssessments has returned and no query failed, savedAssessments
\* holds every assessment of the calling user exactly once and none of another
\* user, most recent first, each with the questions a load of it would attach.
C19_ListReturnsEveryOwnedAssessment ==
  (outcome.call.op = "fetch" /\ outcome.result = "ok" /\ outcome.store = "ok") =>
    LET owned == OwnedBy(outcome.call.user_id)
    IN /\ Len(savedAssessments) = Len(owned)
       /\ \A i \in DOMAIN owned :
            /\ i \in DOMAIN savedAssessments
            /\ savedAssessments[i].id = owned[i]
            /\ \E p \in RowOrders, r \in ImageOrders :
                 savedAssessments[i] = loadAssessmentById(owned[i], "none", p, ImageRows(r))

\* C20: when loadAssessment has returned an assessment, its questions are in
\* ascending order of question_number, whatever order the store returned the rows in.
C20_LoadOrdersByQuestionNumber ==
  (/\ outcome.call.op = "load" /\ outcome.result = "ok"
   /\ currentAssessment.id = outcome.call.id) =>
    \A i, j \in DOMAIN currentAssessment.questions :
      i < j => currentAssessment.questions[i].question_number
                 < currentAssessment.questions[j].question_number

\* C21: a fetchAssessments call during which a store query failed reports the
\* failure: when it returns, error is set (a successful fetch for a user without
\* assessments leaves error null and the list empty), and a saved list that held
\* assessments has not been replaced by the empty list.
C21_FailedFetchIsNotEmptySuccess ==
  [][\A c \in inflight :
       (c.op = "fetch" /\ Returns(c) /\ outcome'.store = "error") =>
         /\ error' # Null
         /\ savedAssessments # <<>> => savedAssessments' # <<>>]_vars

\* storeName.trim() is the empty string
IsBlank(name) == trim(Chars(name)) = <<>>

\* C22: a createNewAssessment call made by a signed-in user with a store name
\* that is empty after trimming whitespace is rejected before any request to
\* the store; no assessments row, and no assessment in memory, has such a name.
C22_BlankStoreNameRejected ==
  /\ (/\ outcome.call.op = "create"
      /\ outcome.call.user_id # NoUser
      /\ IsBlank(outcome.call.name)) =>
       /\ outcome.result # "ok"
       /\ outcome.store = "none"
  /\ \A a \in DOMAIN assessments : ~IsBlank(assessments[a].store_name)
  /\ currentAssessment # NoAssessment => ~IsBlank(currentAssessment.store_name)
  /\ \A i \in DOMAIN savedAssessments : ~IsBlank(savedAssessments[i].store_name)

\* C23: in every state, an assessment whose completed flag is true, in the
\* store or in memory, has no unanswered question.
C23_CompletedHasNoUnanswered ==
  /\ \A a \in DOMAIN assessments :
       assessments[a].completed =>
         \A q \in QuestionsOf(a) : assessment_questions[q].answer # Null
  /\ currentAssessment.completed => Unanswered(currentAssessment.questions) = 0
  /\ \A i \in DOMAIN savedAssessments :
       savedAssessments[i].completed => Unanswered(savedAssessments[i].questions) = 0

\* answer, comment and images of each question of an in-memory assessment, by id
Contents(assessment) ==
  {[id |-> assessment.questions[i].id,
    answer |-> assessment.questions[i].answer,
    comment |-> assessment.questions[i].comment,
    images |-> assessment.questions[i].images] : i \in DOMAIN assessment.questions}

\* C24: complete changes only the completion flag.  When a completeAssessment
\* call resolves, the in-memory assessment has the id it had just before, and
\* every question has the answer, comment and images it had just before, also
\* when an updateQuestion or a loadAssessment took effect while the call was in
\* flight.
C24_CompleteChangesOnlyFlag ==
  [][\A c \in inflight :
       (c.op = "complete" /\ Returns(c)) =>
         /\ currentAssessment'.id = currentAssessment.id
         /\ Contents(currentAssessment') = Contents(currentAssessment)]_vars

\* id, question_number and question_text of the questions of an in-memory
\* assessment, in list order
Skeleton(assessment) ==
  [i \in DOMAIN assessment.questions |->
     [id |-> assessment.questions[i].id,
      question_number |-> assessment.questions[i].question_number,
      question_text |-> assessment.questions[i].question_text]]

\* C25: updateQuestion changes one question only.  The step in which an
\* updateQuestion(q, ...) call updates the in-memory assessment leaves its id,
\* its completion flag, the number of questions, every question's id,
\* question_number and question_text, and the answer, comment and images of
\* every question other than q as they were; the step in which its store write
\* resolves changes nothing but answer and comment of row q, so that the
\* question_number values of an assessment's rows stay {1..N}.
C25_UpdateChangesOneQuestion ==
  [][/\ \A c \in inflight' \ inflight :
          (c.op = "update" /\ c.pc = "update") =>
            /\ currentAssessment'.id = currentAssessment.id
            /\ currentAssessment'.completed = currentAssessment.completed
            /\ Skeleton(currentAssessment') = Skeleton(currentAssessment)
            /\ {w \in Contents(currentAssessment') : w.id # c.qid}
                 = {w \in Contents(currentAssessment) : w.id # c.qid}
     /\ \A c \in inflight :
          (c.op = "update" /\ Returns(c)) =>
            /\ currentAssessment' = currentAssessment
            /\ assessments' = assessments
            /\ question_images' = question_images
            /\ DOMAIN assessment_questions' = DOMAIN assessment_questions
            /\ \A q \in DOMAIN assessment_questions :
                 /\ q # c.qid => assessment_questions'[q] = assessment_questions[q]
                 /\ assessment_questions'[q].assessment_id = assessment_questions[q].assessment_id
                 /\ assessment_questions'[q].question_number = assessment_questions[q].question_number
                 /\ assessment_questions'[q].question_text = assessment_questions[q].question_text
            /\ \A a \in DOMAIN assessments :
                 QuestionsOf(a) # {} =>
                   {assessment_questions'[q].question_number : q \in QuestionsOf(a)}
                     = 1..Len(DEFAULT_QUESTIONS)]_vars

\* C26: memory and store agree per question at rest.  Two updateQuestion calls
\* for the same question of the current assessment were in flight together; d
\* resolved successfully in the step before and c resolves successfully now,
\* leaving no updateQuestion call in flight: the in-memory question then has
\* the answer and comment of its assessment_questions row, whichever of the
\* two writes reached the store first.
C26_MemoryAndStoreAgreeAtRest ==
  [][\A c \in inflight :
       LET d == outcome.call IN
       (/\ c.op = "update"
        /\ Returns(c)
        /\ outcome'.result = "ok"
        /\ d.op = "update"
        /\ outcome.result = "ok"
        /\ d.id = c.id
        /\ d.qid = c.qid
        /\ currentAssessment.id = c.id
        /\ c.qid \in IdsOf(currentAssessment)
        /\ \A e \in inflight' : e.op # "update") =>
         \A w \in QuestionById(currentAssessment', c.qid) :
           /\ w.answer = assessment_questions'[c.qid].answer
           /\ w.comment = assessment_questions'[c.qid].comment]_vars

\* C27: savedAssessments never holds the same assessment id twice, however
\* createNewAssessment, which prepends the new assessment, interleaves with a
\* fetchAssessments whose response replaces the list.
C27_SavedAssessmentsHasNoDuplicate ==
  \A i, j \in DOMAIN savedAssessments :
    i # j => savedAssessments[i].id # savedAssessments[j].id

\* C28: in every state where no user is signed in (the effect on the user
\* change has run), currentAssessment is null and savedAssessments is empty,
\* also after a fetch, load or create that was started before the sign-out has
\* resolved.
C28_EmptyAfterSignOut ==
  user = NoUser => /\ currentAssessment = NoAssessment
                   /\ savedAssessments = <<>>

\* C29: the authenticated user never outlives the session.  In every state
\* where no profile fetch is in flight, user is non-null only if the auth
\* client holds a session with a user.
C29_UserNeverOutlivesSession ==
  (\A c \in inflight : c.op # "profile") =>
    (user # NoUser => auth.client # NoUser)

\* the calls that set loading to true and are still in flight
LoadingCalls == {c \in inflight : c.op \in {"fetch", "load", "create"}}

\* C30: the loading flag never stays true forever.  Whenever a
\* fetchAssessments, loadAssessment or createNewAssessment call is in flight, a
\* state follows in which every such call has finished and loading is false,
\* whether the calls succeeded or failed.
C30_LoadingComesBackToFalse ==
  (LoadingCalls # {}) ~> (LoadingCalls = {} /\ ~loading)

\* a createNewAssessment call has just failed and nothing is in flight
C30_Witness ==
  /\ outcome.call.op = "create"
  /\ outcome.result = "failed"
  /\ inflight = {}
  /\ ~loading

====
